---- MODULE Spec2Model ----
(***************************************************************************)
(* A model of run.py, the file-integrity snapshot script: one run loads    *)
(* the config, reads the latest record of the records folder, fingerprints *)
(* the listed files, marks each one new / changed / unchanged and dumps    *)
(* the result into a new record file named after the wall clock.           *)
(*                                                                         *)
(* Python dicts are functions with a string domain, strings that are       *)
(* sorted (file names of the records folder) are sequences of character    *)
(* codes, and every I/O failure is a choice of the environment.            *)
(***************************************************************************)
EXTENDS Integers, Sequences, FiniteSets, TLC

VARIABLES
    pc,                 \* position of the program: start, setup, main, prev, build, mark, persist, exited
    outcome,            \* how the process ended: running, exit1, returned, raised
    critical,           \* number of records logged at CRITICAL level by this run
    config,             \* the config file given on the command line
    fs,                 \* the tracked files: path -> [status, content, mtime]
    store,              \* the records folder: [exists, files: name -> content]
    clock,              \* the wall clock, in seconds
    runs,               \* runs started so far
    filenames,          \* main's local: the list of paths read from the config
    last_info_filename, \* get_prev_files_data's local: the record file picked
    prev_records,       \* main's local: the previous records
    curr_order,         \* main's local: the keys of curr_records in insertion order
    curr_records,       \* main's local: the current records
    built,              \* the records as get_curr_files_data returned them
    saved               \* the name of the record file this run wrote, or None

vars == <<pc, outcome, critical, config, fs, store, clock, runs, filenames,
          last_info_filename, prev_records, curr_order, curr_records, built, saved>>

(***************************************************************************)
(* Bounds of the model.                                                    *)
(***************************************************************************)
MaxFiles == 3       \* longest list of paths a config names
MaxClock == 2       \* last second the wall clock reaches
MaxRuns == 2        \* runs of the script in one behaviour

Paths == {"a", "b", "c"}
\* A list item that is not a string (a JSON number, null, a nested list).
NonStrItem == "<not-a-string>"
Items == Paths \cup {NonStrItem}
Contents == {"c1", "c2"}
\* Modification times in half seconds: 0 and 1 fall in the same second.
Mtimes == {0, 1, 2}
FileStatuses == {"ok", "missing", "nohash", "nomtime"}

EmptyDict == [k \in {} |-> {}]
None == << >>

Min(x, y) == IF x < y THEN x ELSE y

SeqsUpTo(S, n) == UNION {[1..k -> S] : k \in 0..n}

(***************************************************************************)
(* Content Fingerprinter                                                   *)
(***************************************************************************)

\* hashlib.md5 over the whole content, fed in 32768-byte chunks; the digest
\* depends on the content alone.  One of the digests has only decimal digits.
Md5(content) == IF content = "c1" THEN "0cc175b9" ELSE "92514633"

\* A JSON/Python value used as a hash: a string, or a number whose str() is v.
StrValue(s) == [t |-> "str", v |-> s]
NumValue(s) == [t |-> "num", v |-> s]

\* Python's str(): the text of a string is itself, that of a number its digits.
Str(x) == x.v

get_hash(files, filename) == StrValue(Md5(files[filename].content))

\* getmtime -> ctime -> strptime -> strftime: local time cut to the second.
get_modification_date(files, filename) ==
    "2024-01-01 00:00:0" \o ToString(files[filename].mtime \div 2)

(***************************************************************************)
(* Snapshot Builder                                                        *)
(***************************************************************************)

\* The try body of the loop of get_curr_files_data for one list item (the
\* else clause of the try only logs the record).
FingerprintFile(files, filename) ==
    IF filename = NonStrItem THEN [kind |-> "raise"]            \* Path(filename): TypeError
    ELSE IF files[filename].status = "missing" THEN [kind |-> "continue"]
    ELSE IF files[filename].status = "nohash" THEN [kind |-> "raise"]
    ELSE IF files[filename].status = "nomtime" THEN [kind |-> "raise"]
    ELSE [kind |-> "entry",
          rec |-> [hash |-> get_hash(files, filename),
                   modify |-> get_modification_date(files, filename)]]

\* A loop without the handler: what the try body raises leaves the loop.
NoExceptHandler(r) == r

\* except Exception: the error is logged and the loop goes on.
ExceptHandler(r) == IF r.kind = "raise" THEN [kind |-> "caught"] ELSE r

\* files_data[filename] = dict(...): a new key goes last, a known key keeps its place.
DictSet(acc, key, rec) ==
    [raised |-> acc.raised,
     order |-> IF key \in DOMAIN acc.data THEN acc.order ELSE Append(acc.order, key),
     data |-> [k \in DOMAIN acc.data \cup {key} |-> IF k = key THEN rec ELSE acc.data[k]]]

RECURSIVE BuildFrom(_, _, _, _)
BuildFrom(acc, names, i, files) ==
    IF i > Len(names) THEN acc
    ELSE LET r == ExceptHandler(FingerprintFile(files, names[i]))
         IN  IF r.kind = "raise" THEN [acc EXCEPT !.raised = TRUE]
             ELSE IF r.kind = "entry"
                  THEN BuildFrom(DictSet(acc, names[i], r.rec), names, i + 1, files)
                  ELSE BuildFrom(acc, names, i + 1, files)

get_curr_files_data(names, files) ==
    BuildFrom([raised |-> FALSE, order |-> << >>, data |-> EmptyDict], names, 1, files)

(***************************************************************************)
(* Snapshot Store                                                          *)
(***************************************************************************)

\* File names as character codes, the order of Python's string comparison.
ScriptsInfoPrefix == <<115, 99, 114, 105, 112, 116, 115, 95, 105, 110, 102, 111, 95>>  \* scripts_info_
JsonSuffix == <<46, 106, 115, 111, 110>>                                               \* .json
DateChars == <<50, 48, 50, 52, 48, 49, 48, 49, 84, 48, 48, 48, 48>>                    \* 20240101T0000
NotesJson == <<110, 111, 116, 101, 115>> \o JsonSuffix                                 \* notes.json
SettingsJson == <<115, 101, 116, 116, 105, 110, 103, 115>> \o JsonSuffix               \* settings.json
ReadmeTxt == <<114, 101, 97, 100, 109, 101, 46, 116, 120, 116>>                        \* readme.txt
\* scripts_info_20231231T235959.json, a record of the day before
OldRecord ==
    ScriptsInfoPrefix \o <<50, 48, 50, 51, 49, 50, 51, 49, 84, 50, 51, 53, 57, 53, 57>> \o JsonSuffix

Digit(d) == 48 + d

\* datetime.now().strftime("%Y%m%dT%H%M%S"), the clock counting the seconds
\* of one minute: fifteen characters, the seconds zero-padded to two.
Strftime(t) == DateChars \o <<Digit((t \div 10) % 10), Digit(t % 10)>>

\* f'{SCRIPTS_INFO_FOLDER}/scripts_info_{date_str}.json', without the folder.
DumpName(t) == ScriptsInfoPrefix \o Strftime(t) \o JsonSuffix

\* Python's < on strings.
LexLess(s, t) ==
    \E i \in 1..(Min(Len(s), Len(t)) + 1) :
        /\ \A j \in 1..(i - 1) : s[j] = t[j]
        /\ \/ i > Len(s) /\ i <= Len(t)
           \/ i <= Len(s) /\ i <= Len(t) /\ s[i] < t[i]

HasSuffix(name, suffix) ==
    /\ Len(name) >= Len(suffix)
    /\ SubSeq(name, Len(name) - Len(suffix) + 1, Len(name)) = suffix

\* glob's *.json: any name ending in .json that does not start with a dot.
MatchesGlob(name) == HasSuffix(name, JsonSuffix) /\ name[1] # 46

\* glob(f'{folder}/*.json'): nothing when the folder does not exist.
Glob(dir) == IF dir.exists THEN {n \in DOMAIN dir.files : MatchesGlob(n)} ELSE {}

\* filenames.sort(reverse=True); filenames[0] if any.  Every path has the
\* same folder in front, so the paths sort as the names do.
get_last_info_filename(dir) ==
    LET found == Glob(dir)
    IN  IF found = {} THEN None
        ELSE CHOOSE n \in found : \A m \in found : m = n \/ LexLess(m, n)

\* The content of a file of the folder, as open() and json.load() see it.
Unreadable == [kind |-> "unreadable", data |-> EmptyDict]   \* open() fails
InvalidJson == [kind |-> "invalid", data |-> EmptyDict]     \* json.load() fails
NonObjectJson == [kind |-> "nonobject", data |-> EmptyDict] \* a JSON list, number, string
ObjectJson(d) == [kind |-> "object", data |-> d]

\* json.dump(curr_records, f, sort_keys=True, indent=4): the keys and the
\* string values are written as they are; the order of the keys is the text's
\* alone and is lost on loading.
JsonDump(records) == ObjectJson(records)

\* get_prev_files_data: the latest record, {} when there is none or when
\* open/json.load fails; the loop over .items() is outside the try.
get_prev_files_data(dir) ==
    LET last == get_last_info_filename(dir)
    IN  IF last = None THEN [raised |-> FALSE, last |-> last, data |-> EmptyDict]
        ELSE LET c == dir.files[last]
             IN  IF c.kind \in {"unreadable", "invalid"}
                 THEN [raised |-> FALSE, last |-> last, data |-> EmptyDict]
                 ELSE IF c.kind = "nonobject"
                 THEN [raised |-> TRUE, last |-> last, data |-> EmptyDict]   \* AttributeError: items
                 ELSE [raised |-> FALSE, last |-> last, data |-> c.data]

(***************************************************************************)
(* Change Classifier                                                       *)
(***************************************************************************)

\* A value of the previous records that is not a dict (a JSON string, number).
ScalarValue == [scalar |-> "x"]
IsDict(v) == "scalar" \notin DOMAIN v

\* curr_record['state'] = s
SetState(rec, s) == [f \in DOMAIN rec \cup {"state"} |-> IF f = "state" THEN s ELSE rec[f]]

\* The comparison of line 230 taken on the modification dates as well.
StateOfByDate(prev_rec, curr_rec) ==
    IF Str(curr_rec["hash"]) # Str(prev_rec["hash"]) \/ curr_rec["modify"] # prev_rec["modify"]
    THEN "changed" ELSE "unchanged"

\* Lines 227-233: str() of both hashes, compared.
StateOf(prev_rec, curr_rec) ==
    IF Str(curr_rec["hash"]) # Str(prev_rec["hash"]) THEN "changed" ELSE "unchanged"

\* mark_changed_files, over the keys of curr_records in dict order; a previous
\* value that is not a dict, or has no 'hash', raises and leaves the rest unmarked.
RECURSIVE MarkFrom(_, _, _, _)
MarkFrom(prev, order, data, i) ==
    IF i > Len(order) THEN [raised |-> FALSE, data |-> data]
    ELSE LET k == order[i]
         IN  IF k \notin DOMAIN prev
             THEN MarkFrom(prev, order, [data EXCEPT ![k] = SetState(@, "new")], i + 1)
             ELSE IF ~IsDict(prev[k]) \/ "hash" \notin DOMAIN prev[k]
             THEN [raised |-> TRUE, data |-> data]
             ELSE MarkFrom(prev, order,
                           [data EXCEPT ![k] = SetState(@, StateOf(prev[k], @))], i + 1)

\* The classifier with a record for every path that is gone: not what the
\* code does.
MarkWithDeleted(prev, order, data) ==
    LET r == MarkFrom(prev, order, data, 1)
        gone == DOMAIN prev \ DOMAIN data
    IN  [raised |-> r.raised,
         data |-> [k \in DOMAIN r.data \cup gone |->
                      IF k \in gone THEN [state |-> "deleted"] ELSE r.data[k]]]

mark_changed_files(prev, order, data) == MarkFrom(prev, order, data, 1)

(***************************************************************************)
(* Run Orchestrator: the module's top level and main()                     *)
(***************************************************************************)

RequiredKeys == {"files", "log_file", "records_folder"}

NoLocals ==
    /\ filenames' = << >>
    /\ last_info_filename' = None
    /\ prev_records' = EmptyDict
    /\ curr_order' = << >>
    /\ curr_records' = EmptyDict
    /\ built' = EmptyDict
    /\ saved' = None

\* The process ends: exit(1), a return of main(), or an exception passing the
\* top level.
Exit(how, logged) ==
    /\ pc' = "exited"
    /\ outcome' = how
    /\ critical' = critical + logged

\* Lines 302-304: except BaseException: logger.critical(...); raise.
ReRaise == Exit("raised", 1)

\* Lines 278-283: get_config; any failure prints and calls exit(1).
LoadConfig ==
    /\ pc = "start"
    /\ IF config.parse = "error"
       THEN Exit("exit1", 0)
       ELSE pc' = "setup" /\ UNCHANGED <<outcome, critical>>
    /\ UNCHANGED <<config, fs, store, clock, runs, filenames, last_info_filename,
                   prev_records, curr_order, curr_records, built, saved>>

\* Lines 288-296: the two keys are read outside any try, then the logger is
\* set up (the folder of the log is taken to be writable).
SetupLogger ==
    /\ pc = "setup"
    /\ IF config.parse # "object" \/ ~({"log_file", "records_folder"} \subseteq config.keys)
       THEN Exit("raised", 0)           \* TypeError or KeyError; no logger yet
       ELSE pc' = "main" /\ UNCHANGED <<outcome, critical>>
    /\ UNCHANGED <<config, fs, store, clock, runs, filenames, last_info_filename,
                   prev_records, curr_order, curr_records, built, saved>>

\* Lines 243-251: get_file_list_from_json; a KeyError or the failed assert is
\* logged at critical level and main returns.
ReadFileList ==
    /\ pc = "main"
    /\ IF "files" \notin config.keys \/ ~config.files_is_list
       THEN Exit("returned", 1) /\ UNCHANGED filenames
       ELSE /\ filenames' = config.files
            /\ pc' = "prev"
            /\ UNCHANGED <<outcome, critical>>
    /\ UNCHANGED <<config, fs, store, clock, runs, last_info_filename,
                   prev_records, curr_order, curr_records, built, saved>>

\* Line 253.
ReadPrev ==
    /\ pc = "prev"
    /\ LET r == get_prev_files_data(store)
       IN  /\ last_info_filename' = r.last
           /\ prev_records' = r.data
           /\ IF r.raised THEN ReRaise
              ELSE pc' = "build" /\ UNCHANGED <<outcome, critical>>
    /\ UNCHANGED <<config, fs, store, clock, runs, filenames,
                   curr_order, curr_records, built, saved>>

\* Line 254.
Build ==
    /\ pc = "build"
    /\ LET r == get_curr_files_data(filenames, fs)
       IN  /\ curr_order' = r.order
           /\ curr_records' = r.data
           /\ built' = r.data
           /\ IF r.raised THEN ReRaise
              ELSE pc' = "mark" /\ UNCHANGED <<outcome, critical>>
    /\ UNCHANGED <<config, fs, store, clock, runs, filenames, last_info_filename,
                   prev_records, saved>>

\* Line 256.
Mark ==
    /\ pc = "mark"
    /\ LET r == mark_changed_files(prev_records, curr_order, curr_records)
       IN  /\ curr_records' = r.data
           /\ IF r.raised THEN ReRaise
              ELSE pc' = "persist" /\ UNCHANGED <<outcome, critical>>
    /\ UNCHANGED <<config, fs, store, clock, runs, filenames, last_info_filename,
                   prev_records, curr_order, built, saved>>

\* open(filename4dump, 'w') and json.dump: "open" fails before the file is
\* there, "dump" fails after open() has created or truncated it.
WriteFile(dir, name, records, io) ==
    IF io = "open" THEN [exists |-> TRUE, files |-> dir.files]
    ELSE [exists |-> TRUE,
          files |-> [n \in DOMAIN dir.files \cup {name} |->
                        IF n = name
                        THEN (IF io = "dump" THEN InvalidJson ELSE JsonDump(records))
                        ELSE dir.files[n]]]

\* Lines 258-272: the name from the clock, makedirs outside the try, the
\* write inside it.
Persist ==
    /\ pc = "persist"
    /\ \E io \in {"makedirs", "open", "dump", "ok"} :
          LET filename4dump == DumpName(clock)
          IN  IF io = "makedirs"
              THEN /\ ~store.exists              \* exist_ok=True: only creating can fail
                   /\ ReRaise
                   /\ UNCHANGED <<store, saved>>
              ELSE /\ store' = WriteFile(store, filename4dump, curr_records, io)
                   /\ saved' = IF io = "ok" THEN filename4dump ELSE None
                   /\ Exit("returned", IF io = "ok" THEN 0 ELSE 1)
    /\ UNCHANGED <<config, fs, clock, runs, filenames, last_info_filename,
                   prev_records, curr_order, curr_records, built>>

(***************************************************************************)
(* The environment between two runs                                        *)
(***************************************************************************)

\* The script is started again on the same config.
Rerun ==
    /\ pc = "exited"
    /\ runs < MaxRuns
    /\ runs' = runs + 1
    /\ pc' = "start"
    /\ outcome' = "running"
    /\ critical' = 0
    /\ NoLocals
    /\ UNCHANGED <<config, fs, store, clock>>

\* A second passes.
Tick ==
    /\ pc = "exited"
    /\ runs < MaxRuns
    /\ clock < MaxClock
    /\ clock' = clock + 1
    /\ UNCHANGED <<pc, outcome, critical, config, fs, store, runs, filenames,
                   last_info_filename, prev_records, curr_order, curr_records, built, saved>>

OkFile(c, m) == [status |-> "ok", content |-> c, mtime |-> m]
BadFile(st) == [status |-> st, content |-> "c1", mtime |-> 0]
FileStates == {OkFile(c, m) : c \in Contents, m \in Mtimes}
                  \cup {BadFile(st) : st \in FileStatuses \ {"ok"}}

\* Somebody edits, touches, removes or restores a tracked file.
EditFile ==
    /\ pc = "exited"
    /\ runs < MaxRuns
    /\ \E p \in {"a", "b"}, f \in {OkFile("c1", 0), OkFile("c2", 2), OkFile("c2", 0), BadFile("missing")} :
          /\ fs[p] # f
          /\ fs' = [fs EXCEPT ![p] = f]
    /\ UNCHANGED <<pc, outcome, critical, config, store, clock, runs, filenames,
                   last_info_filename, prev_records, curr_order, curr_records, built, saved>>

(***************************************************************************)
(* The runs of the script                                                  *)
(***************************************************************************)

Config(parse, keys, is_list, files) ==
    [parse |-> parse, keys |-> keys, files_is_list |-> is_list, files |-> files]

OkConfig(files) == Config("object", RequiredKeys, TRUE, files)

\* The lists of the runs: the two tracked files, in any order, repeated or not.
RunLists == SeqsUpTo({"a", "b"}, MaxFiles - 1)

Configs ==
    {Config("error", {}, FALSE, << >>), Config("nonobject", {}, FALSE, << >>)}
        \cup {Config("object", ks, FALSE, << >>) : ks \in SUBSET RequiredKeys}
        \cup {Config("object", ks, TRUE, l) :
                 ks \in {k \in SUBSET RequiredKeys : "files" \in k}, l \in RunLists}

NoDir == [exists |-> FALSE, files |-> EmptyDict]
EmptyDir == [exists |-> TRUE, files |-> EmptyDict]
OneFileDir(name, content) == [exists |-> TRUE, files |-> (name :> content)]

Modifies == {"2024-01-01 00:00:00", "2024-01-01 00:00:01"}

\* What a folder may hold before the first run: nothing, a file of somebody
\* else, or a record of an earlier second that is damaged or well formed.
InitContents ==
    {Unreadable, InvalidJson, NonObjectJson,
     ObjectJson("a" :> [modify |-> "2024-01-01 00:00:00", state |-> "new"]),
     ObjectJson("a" :> [hash |-> StrValue(Md5("c2")),
                        modify |-> "2024-01-01 00:00:00", state |-> "new"])}

InitStores ==
    {NoDir, EmptyDir}
        \cup {OneFileDir(n, c) : n \in {NotesJson, SettingsJson, ReadmeTxt, OldRecord},
                                 c \in InitContents}

InitFs ==
    {f \in [Paths -> {OkFile("c1", 0), BadFile("missing")}] : f["c"] = BadFile("missing")}

Init ==
    /\ pc = "start"
    /\ outcome = "running"
    /\ critical = 0
    /\ config \in Configs
    /\ fs \in InitFs
    /\ store \in InitStores
    /\ clock = 0
    /\ runs = 1
    /\ filenames = << >>
    /\ last_info_filename = None
    /\ prev_records = EmptyDict
    /\ curr_order = << >>
    /\ curr_records = EmptyDict
    /\ built = EmptyDict
    /\ saved = None

Next ==
    \/ LoadConfig
    \/ SetupLogger
    \/ ReadFileList
    \/ ReadPrev
    \/ Build
    \/ Mark
    \/ Persist
    \/ Rerun
    \/ Tick
    \/ EditFile

Spec == Init /\ [][Next]_vars

(***************************************************************************)
(* get_curr_files_data on every list and every state of the files          *)
(***************************************************************************)

InitBuild ==
    /\ pc = "build"
    /\ outcome = "running"
    /\ critical = 0
    /\ filenames \in SeqsUpTo(Items, MaxFiles)
    /\ config = OkConfig(filenames)
    /\ fs \in [Paths -> FileStates]
    /\ store = EmptyDir
    /\ clock = 0
    /\ runs = 1
    /\ last_info_filename = None
    /\ prev_records = EmptyDict
    /\ curr_order = << >>
    /\ curr_records = EmptyDict
    /\ built = EmptyDict
    /\ saved = None

NextBuild == Build

SpecBuild == InitBuild /\ [][NextBuild]_vars

(***************************************************************************)
(* mark_changed_files and the dump on every pair of records                *)
(***************************************************************************)

PrevHashes == {StrValue(Md5(c)) : c \in Contents} \cup {NumValue(Md5("c2"))}

\* The values a previous record file may give a path: a record as the script
\* writes it, one whose hash is a JSON number, one without hash, a scalar.
PrevValues ==
    {[hash |-> h, modify |-> m, state |-> "unchanged"] : h \in PrevHashes, m \in Modifies}
        \cup {[modify |-> m, state |-> "new"] : m \in Modifies}
        \cup {ScalarValue}

PrevDicts == UNION {[S -> PrevValues] : S \in SUBSET {"a", "b"}}

CurrRecs == {[hash |-> StrValue(Md5(c)), modify |-> m] : c \in Contents, m \in Modifies}

\* The key orders of a dict built from a list: no key twice.
CurrOrders ==
    {o \in SeqsUpTo(Paths, MaxFiles - 1) : \A i, j \in DOMAIN o : i # j => o[i] # o[j]}

Range(s) == {s[i] : i \in DOMAIN s}

InitClassify ==
    /\ pc = "mark"
    /\ outcome = "running"
    /\ critical = 0
    /\ curr_order \in CurrOrders
    /\ filenames = curr_order
    /\ config = OkConfig(filenames)
    /\ fs = [p \in Paths |-> BadFile("missing")]
    /\ store \in {NoDir, EmptyDir}
    /\ clock = 0
    /\ runs = 1
    /\ last_info_filename = None
    /\ prev_records \in PrevDicts
    /\ curr_records \in [Range(curr_order) -> CurrRecs]
    /\ built = curr_records
    /\ saved = None

NextClassify == Mark \/ Persist

SpecClassify == InitClassify /\ [][NextClassify]_vars

(***************************************************************************)
(* Properties                                                              *)
(***************************************************************************)

HasPrefix(name, prefix) ==
    Len(name) >= Len(prefix) /\ SubSeq(name, 1, Len(prefix)) = prefix

\* scripts_info_<fifteen characters>.json
IsRecordName(name) ==
    /\ Len(name) = Len(ScriptsInfoPrefix) + 15 + Len(JsonSuffix)
    /\ HasPrefix(name, ScriptsInfoPrefix)
    /\ HasSuffix(name, JsonSuffix)

RecordNames(dir) == {n \in DOMAIN dir.files : IsRecordName(n)}

IsGreatest(n, names) == n \in names /\ \A m \in names : m = n \/ LexLess(m, n)

AllNew(records) ==
    \A p \in DOMAIN records : "state" \in DOMAIN records[p] /\ records[p]["state"] = "new"

\* C1: once mark_changed_files has returned, every path of the current
\* records whose previous record, if any, holds a string hash has the state
\* 'new' when the path is not in the previous records, 'changed' when the two
\* hashes differ and 'unchanged' when they are equal, whatever the two
\* modification dates are.
C1_Classified ==
    pc = "persist" =>
        \A p \in DOMAIN curr_records :
            LET c == curr_records[p]
            IN  IF p \notin DOMAIN prev_records
                THEN "state" \in DOMAIN c /\ c["state"] = "new"
                ELSE prev_records[p]["hash"].t = "str" =>
                        /\ "state" \in DOMAIN c
                        /\ c["state"] = IF c["hash"] # prev_records[p]["hash"]
                                        THEN "changed" ELSE "unchanged"

\* C1's case: a path with the same hash and another modification date in the
\* two records, marked 'unchanged', beside a path marked 'changed'.
C1_Witness ==
    /\ pc = "persist"
    /\ {"a", "b"} \subseteq DOMAIN curr_records
    /\ {"a", "b"} \subseteq DOMAIN prev_records
    /\ prev_records["a"]["hash"] = curr_records["a"]["hash"]
    /\ prev_records["a"]["modify"] # curr_records["a"]["modify"]
    /\ curr_records["a"]["state"] = "unchanged"
    /\ prev_records["b"]["hash"].t = "str"
    /\ prev_records["b"]["hash"] # curr_records["b"]["hash"]
    /\ curr_records["b"]["state"] = "changed"

\* C2: get_curr_files_data returns without raising, and the keys of what it
\* returns are exactly the listed paths that exist and whose hash and
\* modification date could both be read, each with its own hash and date
\* whatever the other items of the list are.
C2_Build ==
    pc # "build" =>
        /\ pc = "mark"
        /\ outcome = "running"
        /\ DOMAIN built = {p \in Paths : p \in Range(filenames) /\ fs[p].status = "ok"}
        /\ \A p \in DOMAIN built :
              built[p] = [hash |-> get_hash(fs, p), modify |-> get_modification_date(fs, p)]

\* C2's case: the list [a, b, c] with b missing gives records for a and c.
C2_Witness ==
    /\ pc = "mark"
    /\ filenames = <<"a", "b", "c">>
    /\ fs["a"].status = "ok" /\ fs["b"].status = "missing" /\ fs["c"].status = "ok"
    /\ DOMAIN built = {"a", "c"}

\* C3: the file get_last_info_filename picks is the greatest of the names of
\* the folder that match scripts_info_<timestamp>.json, never another file.
C3_LatestIsRecord ==
    last_info_filename # None => IsGreatest(last_info_filename, RecordNames(store))

\* C4: a run that completes adds exactly one record file, its name greater
\* than the name of every record already in the folder, and leaves every file
\* that was there with the content it had.
C4_AppendOnly ==
    [][(pc = "persist" /\ saved' # None) =>
          /\ saved' \notin DOMAIN store.files
          /\ DOMAIN store'.files = DOMAIN store.files \cup {saved'}
          /\ \A n \in RecordNames(store) : LexLess(n, saved')
          /\ \A n \in DOMAIN store.files : store'.files[n] = store.files[n]]_vars

\* The latest record of the folder cannot be read as records: open or
\* json.load fails, the JSON value is not an object, or a value has no 'hash'.
DamagedLatest(dir) ==
    /\ RecordNames(dir) # {}
    /\ IsGreatest(get_last_info_filename(dir), RecordNames(dir))
    /\ LET c == dir.files[get_last_info_filename(dir)]
       IN  \/ c.kind # "object"
           \/ \E p \in DOMAIN c.data : ~IsDict(c.data[p]) \/ "hash" \notin DOMAIN c.data[p]

\* C5: with a damaged latest record the run does not fail: reading the
\* previous records gives the empty mapping and marking gives every current
\* record the state 'new'.
C5_DamagedHistory ==
    [][(pc \in {"prev", "mark"} /\ DamagedLatest(store)) =>
          /\ outcome' = "running"
          /\ pc = "prev" => prev_records' = EmptyDict
          /\ pc = "mark" => AllNew(curr_records')]_vars

\* C6: a run that fails to persist, in makedirs or in the write, logs one
\* record at critical level and no exception passes the top level.
C6_PersistFailure ==
    [][(pc = "persist" /\ saved' = None) =>
          /\ critical' = critical + 1
          /\ outcome' = "returned"]_vars

\* C7: with no folder, or no record file in it, get_last_info_filename gives
\* None, the previous records are empty and every current record is marked
\* 'new'.
C7_FirstRun ==
    (pc \in {"build", "mark", "persist"} /\ RecordNames(store) = {}) =>
        /\ last_info_filename = None
        /\ prev_records = EmptyDict
        /\ pc = "persist" => AllNew(curr_records)

\* C8: right after a run has written its records, get_prev_files_data on the
\* folder gives them back: the same paths with the same hash, modify and state.
C8_RoundTrip ==
    (pc = "exited" /\ saved # None) =>
        /\ ~get_prev_files_data(store).raised
        /\ get_prev_files_data(store).data = curr_records

\* C9: mark_changed_files leaves the previous records as they are and changes
\* nothing of the current records but the state of each; the record file then
\* written holds the paths of the current records, so none that is only in
\* the previous ones.
C9_Frame ==
    [][/\ pc = "mark" =>
             /\ prev_records' = prev_records
             /\ DOMAIN curr_records' = DOMAIN curr_records
             /\ \A p \in DOMAIN curr_records :
                   /\ DOMAIN curr_records'[p] \subseteq DOMAIN curr_records[p] \cup {"state"}
                   /\ \A f \in DOMAIN curr_records[p] :
                         curr_records'[p][f] = curr_records[p][f]
       /\ (pc = "persist" /\ saved' # None) =>
             /\ store'.files[saved'].kind = "object"
             /\ DOMAIN store'.files[saved'].data = DOMAIN built
             /\ \A p \in DOMAIN prev_records \ DOMAIN built :
                   p \notin DOMAIN store'.files[saved'].data]_vars

\* C9's case: a path that is in the previous records only, after the current
\* ones were marked and written.
C9_Witness ==
    /\ pc = "exited"
    /\ saved # None
    /\ DOMAIN built = {"a"}
    /\ "b" \in DOMAIN prev_records
    /\ DOMAIN store.files[saved].data = {"a"}
    /\ store.files[saved].data["a"]["state"] = "changed"

\* The config cannot be loaded, lacks one of the three keys, or its 'files'
\* is not a list.
Unusable(c) ==
    \/ c.parse = "error"
    \/ c.parse = "object" /\ (~(RequiredKeys \subseteq c.keys) \/ ~c.files_is_list)

\* C10: with an unusable config the run ends as a handled error before any
\* work: main's steps are not reached, nothing is written and no exception
\* passes the top level.
C10_ConfigError ==
    Unusable(config) =>
        /\ pc \notin {"prev", "build", "mark", "persist"}
        /\ saved = None
        /\ outcome # "raised"

====
